---- MODULE Spec2Model ----
(***************************************************************************)
(* Model of sharepoint_wrapper/_raw.py: five caller-driven operations      *)
(* (get_graph_token, get_site, get_drives, get_children, get_file) that    *)
(* each validate their input, issue an HTTP request on the shared urllib3  *)
(* PoolManager, and turn the response into a return value or an exception. *)
(*                                                                         *)
(* Python values are modelled as follows.                                  *)
(*   str            a TLA+ string (so concatenation and prefixes are real) *)
(*   Optional[x]    <<>> for None, <<x>> for a value                       *)
(*   dict (JSON)    a function whose DOMAIN is the set of keys present     *)
(*   list           a sequence                                             *)
(*   an exception   [type |-> class name, msg |-> str(e)]                  *)
(***************************************************************************)
EXTENDS Integers, Sequences, FiniteSets, TLC

VARIABLES
    pc,           \* "idle" | "waiting" (request in flight) | "done"
    op,           \* the operation being run ("none" between calls)
    base_path,    \* Optional[str] argument of get_children / get_file
    category,     \* Optional[str] argument of get_children
    requests,     \* HTTP requests put on the wire during the current call
    retries,      \* the transport's retry budget for the current call
    response,     \* Optional: the response handed to the operation
    outcome,      \* Optional: what the call did (return / raise)
    clock,        \* wall clock (datetime.now())
    requestTime   \* clock reading when the current call began (unused between calls)

vars == <<pc, op, base_path, category, requests, retries, response, outcome,
          clock, requestTime>>

-----------------------------------------------------------------------------
(* Bounds of the model *)

MaxItems == 2     \* longest "value" array a response carries
MaxClock == 2     \* the clock stops advancing here
MaxTimestamp == 4 \* largest instant datetime.fromtimestamp can represent

-----------------------------------------------------------------------------
(* Python helpers *)

None == <<>>
Some(x) == <<x>>

\* str.startswith
StartsWith(s, prefix) ==
    /\ Len(s) >= Len(prefix)
    /\ SubSeq(s, 1, Len(prefix)) = prefix

\* `sub in s` for strings
Contains(s, sub) ==
    \E i \in 1..(Len(s) - Len(sub) + 1) : SubSeq(s, i, i + Len(sub) - 1) = sub

\* dict.get(key, None)
Get(d, key) == IF key \in DOMAIN d THEN Some(d[key]) ELSE None

\* the dicts with at most the key k, its value drawn from vals
Opt(k, vals) == {<<>>} \cup {k :> v : v \in vals}

\* the sequences over S of length at most n
SeqUpTo(S, n) == UNION {[1..k -> S] : k \in 0..n}

Raise(type, msg) == [kind |-> "raise", type |-> type, msg |-> msg]
Return(value) == [kind |-> "return", value |-> value]

-----------------------------------------------------------------------------
(* What the remote service can send *)

\* A response body: bytes that are not UTF-8 ("binary"), text that is not
\* JSON ("text"), a JSON document that is not an object ("array"), or a JSON
\* object, whose members are in json.
Body(kind, json) == [kind |-> kind, json |-> json]

NonObjectBodies == {Body(k, <<>>) : k \in {"binary", "text", "array"}}

ProviderMessages == {"itemNotFound"}
ErrorObjects == Opt("message", ProviderMessages)
ErrorMembers == Opt("error", ErrorObjects)

TokenObjects ==
    {a @@ e @@ d : a \in Opt("access_token", {"", "tok"}),
                   e \in Opt("expires_in", {-1, 0, 1, 3}),
                   d \in Opt("error_description", {"invalid_client"})}

SiteObjects == {i @@ e : i \in Opt("id", {"abc123"}), e \in ErrorMembers}

DriveItems == {i @@ n : i \in Opt("id", {"d1"}), n \in Opt("name", {"Documents"})}

DrivesObjects ==
    Opt("value", SeqUpTo(DriveItems, MaxItems)) \cup ErrorMembers

Facet == [childCount |-> 0]

ChildItems ==
    {n @@ u @@ fo @@ fi : n \in Opt("name", {"Reports"}),
                          u \in {"webUrl" :> "https://x/Reports"},
                          fo \in Opt("folder", {Facet}),
                          fi \in Opt("file", {Facet})}

ChildrenObjects ==
    Opt("value", SeqUpTo(ChildItems, MaxItems)) \cup ErrorMembers

Objects(o) ==
    CASE o = "get_graph_token" -> TokenObjects
      [] o = "get_site" -> SiteObjects
      [] o = "get_drives" -> DrivesObjects
      [] o = "get_children" -> ChildrenObjects
      [] o = "get_file" -> ErrorMembers

Bodies(o) == NonObjectBodies \cup {Body("object", j) : j \in Objects(o)}

\* status line and the one header the transport looks at
StatusLines ==
    { <<200, "">>, <<404, "">>, <<302, "Location">>, <<503, "Retry-After">> }

Responses(o) ==
    {[status |-> s[1], header |-> s[2], body |-> b] :
        s \in StatusLines, b \in Bodies(o)}

-----------------------------------------------------------------------------
(* The transport: http = urllib3.PoolManager(), and http.request(...) *)

Operations == {"get_graph_token", "get_site", "get_drives", "get_children",
               "get_file"}

\* urllib3's Retry.DEFAULT, used when http.request gets no retries argument
DefaultRetries == 3

RedirectStatuses == {301, 302, 303, 307, 308}
RetryAfterStatuses == {413, 429, 503}

\* Faulty variant of RetryPolicy: the retries argument left out of every call.
RetryPolicy_default(o) == [enabled |-> TRUE, total |-> DefaultRetries]

\* The retries argument of each http.request call: retries=False everywhere
\* but in get_file, where the argument is commented out.
RetryPolicy(o) ==
    IF o = "get_file"
    THEN [enabled |-> TRUE, total |-> DefaultRetries]
    ELSE [enabled |-> FALSE, total |-> 0]

IsRedirect(r) == r.status \in RedirectStatuses /\ r.header = "Location"
IsRetryStatus(r) == r.status \in RetryAfterStatuses /\ r.header = "Retry-After"

\* What http.request does with a response: "resend" (follow the redirect or
\* retry the request), "raise" (MaxRetryError) or "deliver" (return it).
OnResponse(policy, r) ==
    IF policy.enabled /\ IsRedirect(r)
    THEN IF policy.total > 0 THEN "resend" ELSE "raise"
    ELSE IF policy.enabled /\ policy.total > 0 /\ IsRetryStatus(r)
         THEN "resend"
         ELSE "deliver"

\* What http.request does when the connection fails.
OnConnectionError(policy) ==
    IF policy.enabled /\ policy.total > 0 THEN "resend" ELSE "raise"

\* The exception http.request raises when it gives up.
TransportError(policy) ==
    IF policy.enabled
    THEN Raise("MaxRetryError", "Max retries exceeded with url")
    ELSE Raise("NewConnectionError", "Failed to establish a new connection")

-----------------------------------------------------------------------------
(* Pieces shared by the operations *)

BasePathMessage == "Base path must always begin with a slash /"
TokenLabel == "Error during token retrieval: "
SiteLabel == "Invalid Site: "

\* json.loads(response.data.decode("utf-8"))
Loads(body) ==
    CASE body.kind = "binary" ->
            Raise("UnicodeDecodeError", "'utf-8' codec can't decode byte 0xff")
      [] body.kind = "text" ->
            Raise("JSONDecodeError", "Expecting value: line 1 column 1 (char 0)")
      [] OTHER -> Return(body)

\* Faulty variant of Wrap: a bare `raise` in the except clause.
Wrap_reraise(label, result) == result

\* except Exception as e: raise Exception(f"<label>{str(e)}")
Wrap(label, result) ==
    IF result.kind = "raise"
    THEN Raise("Exception", label \o result.msg)
    ELSE result

\* Faulty variant of InvalidBasePath: `if base_path and not ...` (truthiness test).
InvalidBasePath_truthy(bp) ==
    bp # None /\ bp[1] # "" /\ ~StartsWith(bp[1], "/")

\* base_path is not None and not base_path.startswith("/")
InvalidBasePath(bp) == bp # None /\ ~StartsWith(bp[1], "/")

\* Faulty variant of RaiseProviderMessage: reads error.code instead of error.message.
RaiseProviderMessage_code(response_data) ==
    IF response_data.kind # "object"
    THEN Raise("TypeError", "list indices must be integers or slices, not str")
    ELSE IF "error" \notin DOMAIN response_data.json
    THEN Raise("KeyError", "'error'")
    ELSE Raise("KeyError", "'code'")

\* error_description = response_data["error"]["message"]; raise Exception(...)
RaiseProviderMessage(response_data) ==
    IF response_data.kind # "object"
    THEN Raise("TypeError", "list indices must be integers or slices, not str")
    ELSE IF "error" \notin DOMAIN response_data.json
    THEN Raise("KeyError", "'error'")
    ELSE IF "message" \notin DOMAIN response_data.json["error"]
    THEN Raise("KeyError", "'message'")
    ELSE Raise("Exception", response_data.json["error"]["message"])

\* response_data.get(key, None) on whatever json.loads returned
GetMember(response_data, key) ==
    IF response_data.kind # "object"
    THEN Raise("AttributeError", "'list' object has no attribute 'get'")
    ELSE Return(Get(response_data.json, key))

-----------------------------------------------------------------------------
(* get_graph_token *)

\* Faulty variant of ErrorDescription: .get without the default.
ErrorDescription_nodefault(json) ==
    IF "error_description" \in DOMAIN json
    THEN json["error_description"]
    ELSE "None"

\* response_data.get("error_description", "Unknown error")
ErrorDescription(json) ==
    IF "error_description" \in DOMAIN json
    THEN json["error_description"]
    ELSE "Unknown error"

\* Faulty variant of Expiry: the lifetime subtracted instead of added.
Expiry_minus(now, expires_in) == Return(now - expires_in)

\* datetime.fromtimestamp(datetime.now().timestamp() + expires_in)
Expiry(now, expires_in) ==
    IF now + expires_in > MaxTimestamp
    THEN Raise("ValueError", "year is out of range")
    ELSE Return(now + expires_in)

get_graph_token_body(r, now) ==
    LET parsed == Loads(r.body) IN
    IF parsed.kind = "raise" THEN parsed
    ELSE IF parsed.value.kind # "object"
    THEN Raise("AttributeError", "'list' object has no attribute 'get'")
    ELSE LET json == parsed.value.json IN
         IF r.status # 200
         THEN Raise("Exception", ErrorDescription(json))
         ELSE LET token == Get(json, "access_token")
                  expires_in == Get(json, "expires_in")
              IN  IF expires_in # None
                  THEN LET at == Expiry(now, expires_in[1]) IN
                       IF at.kind = "raise" THEN at
                       ELSE Return(<<token, Some(at.value)>>)
                  ELSE Return(<<token, None>>)

\* result is what http.request did: Return(response) or a raised exception
get_graph_token(result, now) ==
    Wrap(TokenLabel,
         IF result.kind = "raise" THEN result
         ELSE get_graph_token_body(result.value, now))

-----------------------------------------------------------------------------
(* get_site *)

get_site_body(r) ==
    LET parsed == Loads(r.body) IN
    IF parsed.kind = "raise" THEN parsed
    ELSE IF r.status # 200 THEN RaiseProviderMessage(parsed.value)
    ELSE GetMember(parsed.value, "id")

get_site(result) ==
    Wrap(SiteLabel,
         IF result.kind = "raise" THEN result ELSE get_site_body(result.value))

-----------------------------------------------------------------------------
(* get_drives *)

\* (d.get("id"), d.get("name"))
DrivePair(d) == <<Get(d, "id"), Get(d, "name")>>

RECURSIVE DrivePairs(_)
\* [(d.get("id"), d.get("name")) for d in raw_drives]
DrivePairs(raw_drives) ==
    IF raw_drives = <<>> THEN <<>>
    ELSE <<DrivePair(Head(raw_drives))>> \o DrivePairs(Tail(raw_drives))

\* Faulty variant of DriveList: response_data["value"] instead of .get("value").
DriveList_subscript(response_data) ==
    IF response_data.kind # "object"
    THEN Raise("TypeError", "list indices must be integers or slices, not str")
    ELSE IF "value" \notin DOMAIN response_data.json
    THEN Raise("KeyError", "'value'")
    ELSE Return(DrivePairs(response_data.json["value"]))

\* raw_drives = response_data.get("value", None); drives = [] ...
DriveList(response_data) ==
    LET raw_drives == GetMember(response_data, "value") IN
    IF raw_drives.kind = "raise" THEN raw_drives
    ELSE IF raw_drives.value # None
    THEN Return(DrivePairs(raw_drives.value[1]))
    ELSE Return(<<>>)

get_drives_body(r) ==
    LET parsed == Loads(r.body) IN
    IF parsed.kind = "raise" THEN parsed
    ELSE IF r.status # 200 THEN RaiseProviderMessage(parsed.value)
    ELSE DriveList(parsed.value)

get_drives(result) ==
    Wrap(SiteLabel,
         IF result.kind = "raise" THEN result ELSE get_drives_body(result.value))

-----------------------------------------------------------------------------
(* get_children *)

\* Faulty variant of EntryKind: the file key tested first.
EntryKind_filefirst(d) ==
    IF "file" \in DOMAIN d THEN "file"
    ELSE IF "folder" \in DOMAIN d THEN "folder"
    ELSE "unknown"

\* "folder" if "folder" in d else "file" if "file" in d else "unknown"
EntryKind(d) ==
    IF "folder" \in DOMAIN d THEN "folder"
    ELSE IF "file" \in DOMAIN d THEN "file"
    ELSE "unknown"

\* (category is None) or (category is not None and category in d)
KeepEntry(cat, d) ==
    (cat = None) \/ (cat # None /\ cat[1] \in DOMAIN d)

\* (d.get("name"), d.get("webUrl"), kind)
Entry(d) == <<Get(d, "name"), Get(d, "webUrl"), EntryKind(d)>>

RECURSIVE Entries(_, _)
\* [(...) for d in raw_drives if ...]
Entries(raw_drives, cat) ==
    IF raw_drives = <<>> THEN <<>>
    ELSE LET d == Head(raw_drives)
             rest == Entries(Tail(raw_drives), cat)
         IN  IF KeepEntry(cat, d) THEN <<Entry(d)>> \o rest ELSE rest

EntryList(response_data, cat) ==
    LET raw_drives == GetMember(response_data, "value") IN
    IF raw_drives.kind = "raise" THEN raw_drives
    ELSE IF raw_drives.value # None
    THEN Return(Entries(raw_drives.value[1], cat))
    ELSE Return(<<>>)

get_children_body(r, cat) ==
    LET parsed == Loads(r.body) IN
    IF parsed.kind = "raise" THEN parsed
    ELSE IF r.status # 200 THEN RaiseProviderMessage(parsed.value)
    ELSE EntryList(parsed.value, cat)

get_children(result, cat) ==
    Wrap(SiteLabel,
         IF result.kind = "raise" THEN result
         ELSE get_children_body(result.value, cat))

-----------------------------------------------------------------------------
(* get_file *)

get_file_body(r) ==
    IF r.status # 200
    THEN LET parsed == Loads(r.body) IN
         IF parsed.kind = "raise" THEN parsed
         ELSE RaiseProviderMessage(parsed.value)
    ELSE Return(r.body)      \* BytesIO(response.data)

\* Faulty variant of get_file: only http.request inside the try block.
get_file_narrowtry(result) ==
    IF result.kind = "raise" THEN Wrap(SiteLabel, result)
    ELSE get_file_body(result.value)

get_file(result) ==
    Wrap(SiteLabel,
         IF result.kind = "raise" THEN result ELSE get_file_body(result.value))

-----------------------------------------------------------------------------
(* The state machine: one call at a time, driven by the caller *)

\* try: ... except Exception of the running operation, applied to what
\* http.request did
Handle(o, result, cat, now) ==
    CASE o = "get_graph_token" -> get_graph_token(result, now)
      [] o = "get_site" -> get_site(result)
      [] o = "get_drives" -> get_drives(result)
      [] o = "get_children" -> get_children(result, cat)
      [] o = "get_file" -> get_file(result)

BasePaths == {None, Some(""), Some("/"), Some("/a"), Some("a")}
Categories == {None, Some("folder"), Some("file"), Some("name")}

Init ==
    /\ pc = "idle"
    /\ op = "none"
    /\ base_path = None
    /\ category = None
    /\ requests = 0
    /\ retries = RetryPolicy("none")
    /\ response = None
    /\ outcome = None
    /\ clock = 0
    /\ requestTime = 0

\* The caller invokes an operation: the statements before the try block and
\* the first http.request.
Call(o, bp, cat) ==
    /\ pc = "idle"
    /\ op' = o
    /\ base_path' = bp
    /\ category' = cat
    /\ response' = None
    /\ retries' = RetryPolicy(o)
    /\ requestTime' = clock
    /\ IF o \in {"get_children", "get_file"} /\ InvalidBasePath(bp)
       THEN /\ outcome' = Some(Raise("Exception", BasePathMessage))
            /\ requests' = 0
            /\ pc' = "done"
       ELSE /\ outcome' = None
            /\ requests' = 1
            /\ pc' = "waiting"
    /\ UNCHANGED clock

\* http.request sends the request again (a retry or a followed redirect).
Resend ==
    /\ pc = "waiting"
    /\ \/ OnConnectionError(retries) = "resend"
       \/ \E r \in Responses(op) : OnResponse(retries, r) = "resend"
    /\ requests' = requests + 1
    /\ retries' = [retries EXCEPT !.total = @ - 1]
    /\ UNCHANGED <<pc, op, base_path, category, response, outcome, clock,
                   requestTime>>

\* http.request raises; the operation's except clause runs.
TransportRaises ==
    /\ pc = "waiting"
    /\ \/ OnConnectionError(retries) = "raise"
       \/ \E r \in Responses(op) : OnResponse(retries, r) = "raise"
    /\ outcome' = Some(Handle(op, TransportError(retries), category, clock))
    /\ pc' = "done"
    /\ UNCHANGED <<op, base_path, category, requests, retries, response, clock,
                   requestTime>>

\* http.request returns a response; the rest of the operation runs.
Deliver ==
    /\ pc = "waiting"
    /\ \E r \in Responses(op) :
          /\ OnResponse(retries, r) = "deliver"
          /\ response' = Some(r)
          /\ outcome' = Some(Handle(op, Return(r), category, clock))
    /\ pc' = "done"
    /\ UNCHANGED <<op, base_path, category, requests, retries, clock,
                   requestTime>>

\* The call is over (its frame is gone); the caller may make the next one.
\* Nothing but the clock carries over from one call to the next.
Finish ==
    /\ pc = "done"
    /\ pc' = "idle"
    /\ op' = "none"
    /\ base_path' = None
    /\ category' = None
    /\ requests' = 0
    /\ retries' = RetryPolicy("none")
    /\ response' = None
    /\ outcome' = None
    /\ requestTime' = clock
    /\ UNCHANGED clock

\* Time passes while a request is in flight.
Tick ==
    /\ pc = "waiting"
    /\ clock < MaxClock
    /\ clock' = clock + 1
    /\ UNCHANGED <<pc, op, base_path, category, requests, retries, response,
                   outcome, requestTime>>

Next ==
    \/ \E o \in Operations, bp \in BasePaths, cat \in Categories :
          /\ (o \notin {"get_children", "get_file"} => bp = None)
          /\ (o # "get_children" => cat = None)
          /\ Call(o, bp, cat)
    \/ Resend
    \/ TransportRaises
    \/ Deliver
    \/ Finish
    \/ Tick

Spec == Init /\ [][Next]_vars

-----------------------------------------------------------------------------
(* Views of the current call used by the properties *)

Done == pc = "done"
Raised == Done /\ outcome[1].kind = "raise"
Returned == Done /\ outcome[1].kind = "return"
Answered == Done /\ response # None      \* a response reached the operation
IsObject == response[1].body.kind = "object"
Json == response[1].body.json
HasProviderMessage ==
    /\ IsObject
    /\ "error" \in DOMAIN Json
    /\ "message" \in DOMAIN Json["error"]
GraphCalls == {"get_site", "get_drives", "get_children", "get_file"}

-----------------------------------------------------------------------------
(* C1 *)

\* C1: a call of get_children or get_file whose base_path is given and does
\* not begin with "/" (the empty string included) fails with the validation
\* error, and no HTTP request is sent during the call.
C1_BadBasePathFailsBeforeRequest ==
    ( /\ op \in {"get_children", "get_file"}
      /\ base_path # None
      /\ (Len(base_path[1]) = 0 \/ SubSeq(base_path[1], 1, 1) # "/") )
    => /\ Done
       /\ outcome[1].kind = "raise"
       /\ outcome[1].msg = BasePathMessage
       /\ requests = 0
       /\ response = None

C1_Witness ==
    /\ Done
    /\ op = "get_file"
    /\ base_path = Some("")
    /\ Raised

-----------------------------------------------------------------------------
(* C2 *)

-----------------------------------------------------------------------------
(* C3 *)

\* C3: in get_site, get_drives, get_children and get_file a response whose
\* status is not 200 makes the call fail, and when its body is JSON with
\* error.message the failure message contains that provider message.
C3_NonOkFailsWithProviderMessage ==
    (Answered /\ op \in GraphCalls /\ response[1].status # 200)
    => /\ outcome[1].kind = "raise"
       /\ HasProviderMessage
            => Contains(outcome[1].msg, Json["error"]["message"])

C3_Witness ==
    /\ Answered
    /\ op = "get_file"
    /\ response[1].status = 404
    /\ HasProviderMessage
    /\ Raised
    /\ outcome[1].msg = "Invalid Site: itemNotFound"

-----------------------------------------------------------------------------
(* C4 *)

\* C4: a non-200 response to get_graph_token whose body is a JSON object
\* makes the call fail; the message contains error_description when the body
\* has it and "Unknown error" when it has not.
C4_TokenFailureCarriesDescription ==
    (Answered /\ op = "get_graph_token" /\ response[1].status # 200 /\ IsObject)
    => /\ outcome[1].kind = "raise"
       /\ "error_description" \in DOMAIN Json
            => Contains(outcome[1].msg, Json["error_description"])
       /\ "error_description" \notin DOMAIN Json
            => Contains(outcome[1].msg, "Unknown error")

C4_Witness ==
    /\ Answered
    /\ op = "get_graph_token"
    /\ response[1].status = 404
    /\ IsObject
    /\ "error_description" \notin DOMAIN Json
    /\ Raised
    /\ outcome[1].msg = "Error during token retrieval: Unknown error"

-----------------------------------------------------------------------------
(* C5 *)

-----------------------------------------------------------------------------
(* C6 *)

\* the indices of items that the category filter lets through
KeptIndices(items, cat) ==
    {i \in 1..Len(items) : cat = None \/ cat[1] \in DOMAIN items[i]}

\* C6: on a 200 children response with a value array, get_children returns,
\* in the array's order, exactly the elements that pass the filter (all of
\* them when category is None, else those having the key category names),
\* each as (name, webUrl, kind), kind being "folder" if a folder key is
\* present, else "file" if a file key is present, else "unknown".
C6_ChildrenAreFilteredAndMappedInOrder ==
    (Answered /\ op = "get_children" /\ response[1].status = 200
       /\ IsObject /\ "value" \in DOMAIN Json)
    => /\ outcome[1].kind = "return"
       /\ LET items == Json["value"]
              result == outcome[1].value
              kept == KeptIndices(items, category)
          IN  /\ Len(result) = Cardinality(kept)
              /\ \A i \in kept :
                    LET j == Cardinality({k \in kept : k <= i})
                        d == items[i]
                    IN  /\ result[j][1] = Get(d, "name")
                        /\ result[j][2] = Get(d, "webUrl")
                        /\ "folder" \in DOMAIN d => result[j][3] = "folder"
                        /\ ("folder" \notin DOMAIN d /\ "file" \in DOMAIN d)
                             => result[j][3] = "file"
                        /\ ("folder" \notin DOMAIN d /\ "file" \notin DOMAIN d)
                             => result[j][3] = "unknown"

C6_Witness ==
    /\ Answered
    /\ op = "get_children"
    /\ response[1].status = 200
    /\ IsObject
    /\ "value" \in DOMAIN Json
    /\ category = Some("folder")
    /\ Len(Json["value"]) = 2
    /\ "folder" \notin DOMAIN Json["value"][1]
    /\ "folder" \in DOMAIN Json["value"][2]
    /\ Returned
    /\ Len(outcome[1].value) = 1
    /\ outcome[1].value[1][3] = "folder"

-----------------------------------------------------------------------------
(* C7 *)

\* C7: with category "folder" every entry get_children returns has kind
\* "folder", and with category "file" every entry has kind "file".
C7_CategorySelectsByKind ==
    (Returned /\ op = "get_children"
       /\ category \in {Some("folder"), Some("file")})
    => \A j \in 1..Len(outcome[1].value) :
          outcome[1].value[j][3] = category[1]

-----------------------------------------------------------------------------
(* C8 *)

\* C8: on a 200 response whose JSON body has an empty or absent value
\* array, get_drives and get_children return an empty list and do not fail.
C8_NoValueGivesEmptyList ==
    (Answered /\ op \in {"get_drives", "get_children"}
       /\ response[1].status = 200 /\ IsObject
       /\ ("value" \notin DOMAIN Json \/ Len(Json["value"]) = 0))
    => /\ outcome[1].kind = "return"
       /\ Len(outcome[1].value) = 0

C8_Witness ==
    /\ Answered
    /\ op = "get_drives"
    /\ response[1].status = 200
    /\ IsObject
    /\ "value" \notin DOMAIN Json
    /\ Returned
    /\ Len(outcome[1].value) = 0

-----------------------------------------------------------------------------
(* C9 *)

\* C9 as stated: every failure of get_graph_token has a message starting
\* with "Error during token retrieval: ", and every failure of get_site,
\* get_drives, get_children or get_file, whatever its cause, has a message
\* starting with "Invalid Site: ".
C9_EveryFailureIsLabelled ==
    Raised
    => /\ op = "get_graph_token" => StartsWith(outcome[1].msg, TokenLabel)
       /\ op \in GraphCalls => StartsWith(outcome[1].msg, SiteLabel)

\* C9 amended: as stated, except for the base path validation failure of
\* get_children and get_file, which is raised before the try block and
\* reaches the caller unwrapped, its message being exactly the validation
\* message; every failure raised once the request has been issued is a plain
\* Exception carrying the operation's label.
C9_FailuresLabelledExceptValidation ==
    Raised
    => /\ outcome[1].type = "Exception"
       /\ op = "get_graph_token" => StartsWith(outcome[1].msg, TokenLabel)
       /\ op \in {"get_site", "get_drives"}
            => StartsWith(outcome[1].msg, SiteLabel)
       /\ op \in {"get_children", "get_file"}
            => IF requests = 0
               THEN outcome[1].msg = BasePathMessage
               ELSE StartsWith(outcome[1].msg, SiteLabel)

C9_Witness ==
    /\ Answered
    /\ op = "get_children"
    /\ response[1].status = 404
    /\ IsObject
    /\ "error" \notin DOMAIN Json
    /\ Raised
    /\ outcome[1].msg = "Invalid Site: 'error'"

-----------------------------------------------------------------------------
(* C10 *)

\* C10 as stated: when get_file gets a non-200 response whose body is not
\* JSON, the parse failure itself reaches the caller, unhandled.
C10_ParseFailurePropagatesUnhandled ==
    (Answered /\ op = "get_file" /\ response[1].status # 200
       /\ response[1].body.kind \in {"binary", "text"})
    => /\ outcome[1].kind = "raise"
       /\ outcome[1].type \in {"JSONDecodeError", "UnicodeDecodeError"}

\* C10 amended: when get_file gets a non-200 response whose body is not
\* JSON, the parse failure is caught by the operation's except clause and
\* reaches the caller as the generic Exception whose message is
\* "Invalid Site: " followed by the parse failure's own message (and so
\* carries no provider message).
C10_ParseFailureIsWrapped ==
    (Answered /\ op = "get_file" /\ response[1].status # 200
       /\ response[1].body.kind \in {"binary", "text"})
    => /\ outcome[1].kind = "raise"
       /\ outcome[1].type = "Exception"
       /\ StartsWith(outcome[1].msg, SiteLabel)
       /\ \/ Contains(outcome[1].msg, "Expecting value")
          \/ Contains(outcome[1].msg, "codec can't decode")

C10_Witness ==
    /\ Answered
    /\ op = "get_file"
    /\ response[1].status = 404
    /\ response[1].body.kind = "binary"
    /\ Raised
    /\ outcome[1].type = "Exception"

====
